---------------------------- MODULE Spec2Model ----------------------------
(***************************************************************************)
(* The renewable-energy dashboard: load_data (read, clean and cache the    *)
(* CSV) and the top-to-bottom render script, in its two copies             *)
(* (src/app.py and src/.ipynb_checkpoints/app.py).                         *)
(*                                                                         *)
(* Floats are fixed-point numbers counted in units of 1/Scale; the Year    *)
(* column after astype(int) holds plain integers.  A cell is a record      *)
(* [k, n, s]: k is its kind ("nan", "str", "float", "inf", "int"), n its   *)
(* number and s its text.                                                  *)
(***************************************************************************)
EXTENDS Integers, Sequences, FiniteSets, TLC

VARIABLES
    script,            \* which copy of the script the process runs
    csv,               \* final_renewables_dataset.csv as pd.read_csv sees it
    cache,             \* st.cache_data's entry for load_data
    builds,            \* completed executions of load_data's body
    renders,           \* renders started in this process
    pc,                \* position of the running render in the script
    df,                \* the table the running render (or load) holds
    firstTable,        \* the table the first successful render observed
    selected_year,     \* the year slider's value
    selected_country,  \* the country selectbox's value
    out,               \* the elements emitted by the running render, in order
    cards,             \* the metric cards' values
    mix,               \* the energy-mix chart's slices
    charts,            \* the rows of df behind each row-based chart
    trend,             \* the points of the global trend chart
    top,               \* the entities the leaderboard ranked first
    prev               \* what the last finished render drew in the comparison view

vars == <<script, csv, cache, builds, renders, pc, df, firstTable,
          selected_year, selected_country, out, cards, mix, charts, trend, top, prev>>

---------------------------------------------------------------------------
(* Bounds of the model *)

MaxRenders == 2
MaxRows == 2
Scale == 2
LeaderRows == 11
ProbeYear == 2015

(* Constants of the program *)

DefaultYear == 2023
Year2010 == 2010
Year2023 == 2023
TopTen == 10
TopFive == 5

---------------------------------------------------------------------------
(* Cells *)

NaN == [k |-> "nan", n |-> 0, s |-> ""]
Inf == [k |-> "inf", n |-> 0, s |-> ""]
Str(t) == [k |-> "str", n |-> 0, s |-> t]
FloatCell(h) == [k |-> "float", n |-> h, s |-> ""]
IntCell(i) == [k |-> "int", n |-> i, s |-> ""]

IsNa(c) == c.k = "nan"

(* Columns *)

numeric_cols == <<"Solar_GW", "Wind_GW", "Hydro_GW", "Total_GW",
                  "Population", "GDP_per_Capita", "Capacity_per_Capita_kW">>
NumericCols == {numeric_cols[i] : i \in DOMAIN numeric_cols}
LegacyCols == {"Country Name_x", "Country Name_y", "Country"}
KeyCols == {"Entity", "Code", "Year"}
ExpectedCols == KeyCols \cup NumericCols

(* Entity names in the order Python's sorted() gives them *)
EntityOrder == <<"A", "B", "C", "D", "E", "F", "G", "H", "I", "J", "K", "L",
                 "M", "N", "World", "Z">>
Rank(e) == CHOOSE i \in DOMAIN EntityOrder : EntityOrder[i] = e

---------------------------------------------------------------------------
(* Sequence helpers *)

Indices(t) == DOMAIN t.rows

Min(S) == CHOOSE x \in S : \A y \in S : x <= y
Max(S) == CHOOSE x \in S : \A y \in S : x >= y

---------------------------------------------------------------------------
(* load_data: the cleaning steps *)

(* pd.to_numeric(errors='coerce') on one cell *)
ToNumeric(c) == IF c.k = "str" THEN NaN ELSE c

(* Series.fillna(0) on one cell *)
FillNaZero(c) == IF IsNa(c) THEN FloatCell(0) ELSE c

RoundHalfUp(h) == (h + Scale \div 2) \div Scale

(* float -> int64 truncates toward zero *)
Trunc(h) == IF h >= 0 THEN h \div Scale ELSE -((-h) \div Scale)

AsTypeInt(c) == IntCell(Trunc(c.n))

(* astype(int) raises on a non-finite value *)
CanCastYear(t) == \A i \in Indices(t) : ToNumeric(t.rows[i]["Year"]).k # "inf"

YearCell(c) == AsTypeInt(FillNaZero(ToNumeric(c)))

ParseYear(t) ==
    [t EXCEPT !.rows = [i \in DOMAIN t.rows |->
                           [t.rows[i] EXCEPT !["Year"] = YearCell(@)]]]

ParseNumeric(t) ==
    [t EXCEPT !.rows = [i \in DOMAIN t.rows |->
        [c \in DOMAIN t.rows[i] |->
            IF c \in NumericCols THEN ToNumeric(t.rows[i][c]) ELSE t.rows[i][c]]]]

MissingNumeric(t) == SelectSeq(numeric_cols, LAMBDA c : c \notin t.cols)

DropColumns(t) ==
    [cols |-> t.cols \ LegacyCols,
     rows |-> [i \in DOMAIN t.rows |->
                  [c \in t.cols \ LegacyCols |-> t.rows[i][c]]]]

(* DataFrame.dropna(subset=...) *)
DropNa(t, subset) ==
    [t EXCEPT !.rows = SelectSeq(t.rows, LAMBDA r : \A c \in subset : ~IsNa(r[c]))]

DropRowsNoCode(t) == DropNa(t, {"Entity", "Year"})

DropRows(t) == DropNa(t, KeyCols)

---------------------------------------------------------------------------
(* The sidebar selectors *)

Years(t) == {t.rows[i]["Year"].n : i \in Indices(t)}
Countries(t) == {t.rows[i]["Entity"].s : i \in Indices(t)}

(* st.slider widens [min_value, max_value] to hold the default value *)
SliderLo(t) == Min(Years(t) \cup {DefaultYear})
SliderHi(t) == Max(Years(t) \cup {DefaultYear})

(* the years a user is taken to try: those of the data, the comparison years,
   the default, and one year the data may lack *)
YearInputs(t) == Years(t) \cup {DefaultYear, Year2010, Year2023, ProbeYear}

SliderYears(t) == {y \in YearInputs(t) : SliderLo(t) <= y /\ y <= SliderHi(t)}

(* index=countries.index("World") if "World" in countries else 0 *)
DefaultCountry(t) ==
    IF "World" \in Countries(t) THEN "World"
    ELSE CHOOSE e \in Countries(t) : \A f \in Countries(t) : Rank(e) <= Rank(f)

---------------------------------------------------------------------------
(* The views, as functions of the table and the selection *)

NotWorld(r) == r["Entity"] # Str("World")

(* df[(df["Year"] == selected_year) & (df["Entity"] == selected_country)] *)
filtered_country_data(t, y, c) ==
    {i \in Indices(t) : t.rows[i]["Year"] = IntCell(y) /\ t.rows[i]["Entity"] = Str(c)}

(* Series.get(col, 0) *)
Get(r, col) == IF col \in DOMAIN r THEN r[col] ELSE FloatCell(0)

MetricCols == <<"Solar_GW", "Wind_GW", "Hydro_GW", "Total_GW", "Capacity_per_Capita_kW">>
MixCols == <<"Solar_GW", "Wind_GW", "Hydro_GW">>

Metrics(r) == [j \in DOMAIN MetricCols |-> Get(r, MetricCols[j])]

mix_data(r) == [j \in DOMAIN MixCols |-> Get(r, MixCols[j])]

(* x > 0 on a float cell: False for NaN *)
Positive(c) == c.k = "float" /\ c.n > 0

(* app.py: mix_df[mix_df['Capacity_GW'] > 0] *)
mix_df(r) ==
    {[Source |-> MixCols[j], Capacity_GW |-> mix_data(r)[j]] :
        j \in {j \in DOMAIN MixCols : Positive(mix_data(r)[j])}}

(* checkpoint: sum(mix_data.values()), NaN once any value is NaN *)
PySum(cs) ==
    IF \E j \in DOMAIN cs : IsNa(cs[j]) THEN NaN
    ELSE FloatCell(cs[1].n + cs[2].n + cs[3].n)

AllSlices(r) ==
    {[Source |-> MixCols[j], Capacity_GW |-> mix_data(r)[j]] : j \in DOMAIN MixCols}

RECURSIVE SumSlices(_)
SumSlices(S) ==
    IF S = {} THEN 0
    ELSE LET x == CHOOSE y \in S : TRUE IN x.Capacity_GW.n + SumSlices(S \ {x})

(* app.py: not mix_df.empty and mix_df['Capacity_GW'].sum() > 0
   checkpoint: sum(mix_data.values()) > 0 *)
MixDrawn(s, r) ==
    IF s = "app" THEN mix_df(r) # {} /\ SumSlices(mix_df(r)) > 0
    ELSE Positive(PySum(mix_data(r)))

MixSlices(s, r) == IF s = "app" THEN mix_df(r) ELSE AllSlices(r)

(* rows of the selected year other than World with every column of subset present *)
YearRows(t, y, subset) ==
    {i \in Indices(t) : /\ t.rows[i]["Year"] = IntCell(y)
                        /\ NotWorld(t.rows[i])
                        /\ \A c \in subset : ~IsNa(t.rows[i][c])}

map_data(t, y) == YearRows(t, y, {"Total_GW", "Code"})

scatter_data(t, y) ==
    YearRows(t, y, {"GDP_per_Capita", "Capacity_per_Capita_kW", "Population"})

(* groupby(...)[col].sum(): missing values are skipped, an all-missing group sums to 0 *)
RECURSIVE SumCol(_, _, _)
SumCol(t, S, col) ==
    IF S = {} THEN 0
    ELSE LET i == CHOOSE j \in S : TRUE
         IN  (IF IsNa(t.rows[i][col]) THEN 0 ELSE t.rows[i][col].n)
             + SumCol(t, S \ {i}, col)

global_trend_data(t) ==
    LET rows == {i \in Indices(t) : NotWorld(t.rows[i])}
        yrs  == {t.rows[i]["Year"].n : i \in rows}
    IN  {[Year |-> y, Source |-> MixCols[j],
          Capacity_GW |-> FloatCell(SumCol(t, {i \in rows : t.rows[i]["Year"].n = y},
                                           MixCols[j]))] :
            y \in yrs, j \in DOMAIN MixCols}

(* nlargest with the later position first among equal values *)
RECURSIVE NLargestKeepLast(_, _, _)
NLargestKeepLast(vals, avail, n) ==
    IF n = 0 \/ avail = {} THEN <<>>
    ELSE LET best == CHOOSE i \in avail :
                        \A j \in avail : vals[j] < vals[i] \/ (vals[j] = vals[i] /\ i >= j)
         IN  <<best>> \o NLargestKeepLast(vals, avail \ {best}, n - 1)

(* nlargest(n, ...), keep='first': the positions of vals, largest value first,
   the earlier position first among equal values *)
RECURSIVE NLargest(_, _, _)
NLargest(vals, avail, n) ==
    IF n = 0 \/ avail = {} THEN <<>>
    ELSE LET best == CHOOSE i \in avail :
                        \A j \in avail : vals[j] < vals[i] \/ (vals[j] = vals[i] /\ i <= j)
         IN  <<best>> \o NLargest(vals, avail \ {best}, n - 1)

Range(s) == {s[i] : i \in DOMAIN s}

(* checkpoint: latest_data.nlargest(10, 'Total_GW') *)
latest_data(t, y) == YearRows(t, y, {"Total_GW"})

top_10(t, y) ==
    NLargest([i \in Indices(t) |-> t.rows[i]["Total_GW"].n], latest_data(t, y), TopTen)

(* app.py: groupby(['Entity', 'Year'])['Total_GW'].sum() without World, at the
   selected year: one entry per entity, in sorted entity order *)
latest_year_data(t, y) ==
    {e \in Countries(t) : e # "World" /\ filtered_country_data(t, y, e) # {}}

country_total_renewable(t, y, e) == SumCol(t, filtered_country_data(t, y, e), "Total_GW")

top_5_entities(t, y) ==
    LET ents == latest_year_data(t, y)
        pos  == {Rank(e) : e \in ents}
        vals == [p \in pos |-> country_total_renewable(t, y, EntityOrder[p])]
        pick == NLargest(vals, pos, TopFive)
    IN  [k \in DOMAIN pick |-> EntityOrder[pick[k]]]

top5_time_series(t, ents) ==
    {i \in Indices(t) : t.rows[i]["Entity"].s \in ents /\ ~IsNa(t.rows[i]["Total_GW"])}

(* the historical comparison *)
df_comp(t, y) == YearRows(t, y, {"Capacity_per_Capita_kW"})

(* the ten largest of the selected year *)
top10_selected_entities(t) ==
    LET pick == NLargest([i \in Indices(t) |-> t.rows[i]["Capacity_per_Capita_kW"].n],
                         df_comp(t, selected_year), TopTen)
    IN  [k \in DOMAIN pick |-> t.rows[pick[k]]["Entity"].s]

top10_2023_entities(t) ==
    LET pick == NLargest([i \in Indices(t) |-> t.rows[i]["Capacity_per_Capita_kW"].n],
                         df_comp(t, Year2023), TopTen)
    IN  [k \in DOMAIN pick |-> t.rows[pick[k]]["Entity"].s]

comparison_data(t) ==
    {i \in Indices(t) : /\ t.rows[i]["Entity"].s \in Range(top10_2023_entities(t))
                        /\ t.rows[i]["Year"].n \in {Year2010, Year2023}
                        /\ ~IsNa(t.rows[i]["Capacity_per_Capita_kW"])}

---------------------------------------------------------------------------
(* The state machine: one process, its renders one after another *)

EmptyTable == [cols |-> {}, rows |-> <<>>]
ChartViews == {"map", "leader", "scatter", "comparison"}
NoCharts == [v \in ChartViews |-> {}]
Halted == {"idle", "done", "stopped", "crashed"}

El(v, k) == [view |-> v, kind |-> k]

TypeOK ==
    /\ script \in {"app", "checkpoint"}
    /\ builds \in 0..MaxRenders
    /\ renders \in 0..MaxRenders
    /\ pc \in Halted \cup {"load", "read_csv", "parse_year", "parse_numeric",
                           "drop_columns", "dropna", "selectors", "lookup", "map",
                           "trend", "leader", "scatter", "comparison", "footer"}

Start(files) ==
    /\ script \in {"app", "checkpoint"}
    /\ csv \in files
    /\ cache = [full |-> FALSE, table |-> EmptyTable]
    /\ builds = 0
    /\ renders = 0
    /\ pc = "idle"
    /\ df = EmptyTable
    /\ firstTable = [set |-> FALSE, at |-> 0, table |-> EmptyTable]
    /\ selected_year = DefaultYear
    /\ selected_country = ""
    /\ out = <<>>
    /\ cards = <<>>
    /\ mix = {}
    /\ charts = NoCharts
    /\ trend = {}
    /\ top = <<>>
    /\ prev = [set |-> FALSE, comparison |-> {}]

(* the comparison rows of the last render that reached the footer *)
Remember ==
    IF pc = "done"
    THEN [set |-> TRUE, comparison |-> charts["comparison"]]
    ELSE prev

(* a widget interaction or a new session reruns the script from the top *)
NewRender ==
    /\ pc \in Halted
    /\ renders < MaxRenders
    /\ renders' = renders + 1
    /\ pc' = "load"
    /\ df' = EmptyTable
    /\ out' = <<>>
    /\ cards' = <<>>
    /\ mix' = {}
    /\ charts' = NoCharts
    /\ trend' = {}
    /\ top' = <<>>
    /\ prev' = Remember
    /\ UNCHANGED <<script, csv, cache, builds, firstTable, selected_year, selected_country>>

Observe(t) ==
    IF firstTable.set THEN firstTable ELSE [set |-> TRUE, at |-> renders, table |-> t]

(* st.cache_data: a stored value is returned without running the body *)
NeverCached == FALSE

CacheHit == cache.full

CallLoadData ==
    /\ pc = "load"
    /\ IF CacheHit
       THEN /\ df' = cache.table
            /\ firstTable' = Observe(cache.table)
            /\ pc' = "selectors"
       ELSE /\ pc' = "read_csv"
            /\ UNCHANGED <<df, firstTable>>
    /\ UNCHANGED <<prev, script, csv, cache, builds, renders, selected_year, selected_country,
                   out, cards, mix, charts, trend, top>>

(* st.error(...) then st.stop(): the script run ends here *)
StopSwallowed == "selectors"

st_stop == "stopped"

Fatal ==
    /\ out' = Append(out, El("load", "error"))
    /\ pc' = st_stop
    /\ UNCHANGED <<df, cache, builds, firstTable>>

ReadCsv ==
    /\ pc = "read_csv"
    /\ IF ~csv.exists
       THEN Fatal
       ELSE /\ df' = [cols |-> csv.cols, rows |-> csv.rows]
            /\ pc' = "parse_year"
            /\ UNCHANGED <<out, cache, builds, firstTable>>
    /\ UNCHANGED <<prev, script, csv, renders, selected_year, selected_country,
                   cards, mix, charts, trend, top>>

ParseYearStep ==
    /\ pc = "parse_year"
    /\ IF "Year" \notin df.cols \/ ~CanCastYear(df)
       THEN Fatal
       ELSE /\ df' = ParseYear(df)
            /\ pc' = "parse_numeric"
            /\ UNCHANGED <<out, cache, builds, firstTable>>
    /\ UNCHANGED <<prev, script, csv, renders, selected_year, selected_country,
                   cards, mix, charts, trend, top>>

Warnings(t) == [j \in DOMAIN MissingNumeric(t) |-> El("load", "warning")]

ParseNumericStep ==
    /\ pc = "parse_numeric"
    /\ df' = ParseNumeric(df)
    /\ out' = out \o Warnings(df)
    /\ pc' = "drop_columns"
    /\ UNCHANGED <<prev, script, csv, cache, builds, renders, firstTable, selected_year,
                   selected_country, cards, mix, charts, trend, top>>

DropColumnsStep ==
    /\ pc = "drop_columns"
    /\ df' = DropColumns(df)
    /\ pc' = "dropna"
    /\ UNCHANGED <<prev, script, csv, cache, builds, renders, firstTable, selected_year,
                   selected_country, out, cards, mix, charts, trend, top>>

(* dropna raises KeyError on an absent column, caught by except Exception;
   otherwise load_data returns and the cache stores the table *)
DropRowsStep ==
    /\ pc = "dropna"
    /\ IF ~({"Entity", "Code"} \subseteq df.cols)
       THEN Fatal
       ELSE /\ df' = DropRows(df)
            /\ cache' = [full |-> TRUE, table |-> DropRows(df)]
            /\ builds' = builds + 1
            /\ firstTable' = Observe(DropRows(df))
            /\ pc' = "selectors"
            /\ UNCHANGED out
    /\ UNCHANGED <<prev, script, csv, renders, selected_year, selected_country,
                   cards, mix, charts, trend, top>>

---------------------------------------------------------------------------
(* The render script after load_data *)

(* an exception outside load_data is caught by nobody: the run ends with the
   traceback on the page *)
Crash(v) ==
    /\ out' = Append(out, El(v, "exception"))
    /\ pc' = "crashed"

(* min(years) of an empty table raises ValueError *)
SelectorsCrash ==
    /\ pc = "selectors"
    /\ Indices(df) = {}
    /\ Crash("selectors")
    /\ UNCHANGED <<prev, script, csv, cache, builds, renders, df, firstTable, selected_year,
                   selected_country, cards, mix, charts, trend, top>>

(* the first run of the script shows the widgets' defaults; a rerun carries
   the values the user chose *)
Selectors ==
    /\ pc = "selectors"
    /\ Indices(df) # {}
    /\ \E y \in SliderYears(df), c \in Countries(df) :
          /\ renders = 1 => (y = DefaultYear /\ c = DefaultCountry(df))
          /\ selected_year' = y
          /\ selected_country' = c
    /\ pc' = "lookup"
    /\ UNCHANGED <<prev, script, csv, cache, builds, renders, df, firstTable, out,
                   cards, mix, charts, trend, top>>

(* what the script emits when a view's data is empty *)
Placeholder(s, v) == IF s = "app" THEN <<El(v, "info")>> ELSE <<>>

(* a view of the checkpoint without its emptiness test *)
ChartUnguarded(s, v, rows) ==
    IF rows # {} \/ s = "checkpoint" THEN <<El(v, "chart")>> ELSE Placeholder(s, v)

ChartOrPlaceholder(s, v, rows) ==
    IF rows # {} THEN <<El(v, "chart")>> ELSE Placeholder(s, v)

PointLookup ==
    /\ pc = "lookup"
    /\ LET f == filtered_country_data(df, selected_year, selected_country)
       IN  IF f = {}
           THEN /\ out' = out \o Placeholder(script, "lookup")
                /\ UNCHANGED <<cards, mix>>
           ELSE LET country_row == df.rows[Min(f)]
                IN  /\ cards' = Metrics(country_row)
                    /\ IF MixDrawn(script, country_row)
                       THEN /\ mix' = MixSlices(script, country_row)
                            /\ out' = out \o <<El("metrics", "cards"), El("mix", "chart")>>
                       ELSE /\ mix' = {}
                            /\ out' = out \o <<El("metrics", "cards"), El("mix", "info")>>
    /\ pc' = "map"
    /\ UNCHANGED <<prev, script, csv, cache, builds, renders, df, firstTable, selected_year,
                   selected_country, charts, trend, top>>

MapView ==
    /\ pc = "map"
    /\ IF "Total_GW" \notin df.cols
       THEN /\ Crash("map")
            /\ UNCHANGED charts
       ELSE /\ charts' = [charts EXCEPT !["map"] = map_data(df, selected_year)]
            /\ out' = out \o ChartOrPlaceholder(script, "map", map_data(df, selected_year))
            /\ pc' = "trend"
    /\ UNCHANGED <<prev, script, csv, cache, builds, renders, df, firstTable, selected_year,
                   selected_country, cards, mix, trend, top>>

TrendView ==
    /\ pc = "trend"
    /\ IF ~(Range(MixCols) \subseteq df.cols)
       THEN /\ Crash("trend")
            /\ UNCHANGED trend
       ELSE /\ trend' = global_trend_data(df)
            /\ out' = out \o ChartOrPlaceholder(script, "trend", global_trend_data(df))
            /\ pc' = "leader"
    /\ UNCHANGED <<prev, script, csv, cache, builds, renders, df, firstTable, selected_year,
                   selected_country, cards, mix, charts, top>>

(* x = df[...].copy() followed by x.dropna(subset=..., inplace=True): the
   drop acts on the derived frame x, and df keeps every row *)
DroppedFromDf(t, subset) == DropNa(t, subset)

DfAfterInPlace(t, subset) == t

(* app.py: the top 5 entities of the selected year and their rows of every year;
   checkpoint: the top 10 rows of the selected year *)
LeaderTop(s, t, y) ==
    IF s = "app" THEN top_5_entities(t, y)
    ELSE [k \in DOMAIN top_10(t, y) |-> t.rows[top_10(t, y)[k]]["Entity"].s]

LeaderRowsOf(s, t, y) ==
    IF s = "app" THEN top5_time_series(t, Range(top_5_entities(t, y)))
    ELSE Range(top_10(t, y))

LeaderView ==
    /\ pc = "leader"
    /\ IF "Total_GW" \notin df.cols
       THEN /\ Crash("leader")
            /\ UNCHANGED <<charts, top, df>>
       ELSE /\ top' = LeaderTop(script, df, selected_year)
            /\ df' = IF script = "app" /\ top_5_entities(df, selected_year) # <<>>
                     THEN DfAfterInPlace(df, {"Total_GW"}) ELSE df
            /\ charts' = [charts EXCEPT !["leader"] = LeaderRowsOf(script, df, selected_year)]
            /\ out' = out \o ChartOrPlaceholder(script, "leader",
                                               LeaderRowsOf(script, df, selected_year))
            /\ pc' = "scatter"
    /\ UNCHANGED <<prev, script, csv, cache, builds, renders, firstTable, selected_year,
                   selected_country, cards, mix, trend>>

ScatterCols == {"GDP_per_Capita", "Capacity_per_Capita_kW", "Population"}

ScatterView ==
    /\ pc = "scatter"
    /\ IF ~(ScatterCols \subseteq df.cols)
       THEN /\ Crash("scatter")
            /\ UNCHANGED charts
       ELSE /\ charts' = [charts EXCEPT !["scatter"] = scatter_data(df, selected_year)]
            /\ out' = out \o ChartOrPlaceholder(script, "scatter",
                                               scatter_data(df, selected_year))
            /\ pc' = "comparison"
    /\ UNCHANGED <<prev, script, csv, cache, builds, renders, df, firstTable, selected_year,
                   selected_country, cards, mix, trend, top>>

ComparisonRows(t) ==
    IF df_comp(t, Year2010) # {} /\ df_comp(t, Year2023) # {}
    THEN comparison_data(t) ELSE {}

ComparisonView ==
    /\ pc = "comparison"
    /\ IF "Capacity_per_Capita_kW" \notin df.cols
       THEN /\ Crash("comparison")
            /\ UNCHANGED <<charts, df>>
       ELSE /\ charts' = [charts EXCEPT !["comparison"] = ComparisonRows(df)]
            /\ df' = IF script = "app" /\ top10_2023_entities(df) # <<>>
                        /\ df_comp(df, Year2010) # {}
                     THEN DfAfterInPlace(df, {"Capacity_per_Capita_kW"}) ELSE df
            /\ out' = out \o ChartOrPlaceholder(script, "comparison", ComparisonRows(df))
            /\ pc' = "footer"
    /\ UNCHANGED <<prev, script, csv, cache, builds, renders, firstTable, selected_year,
                   selected_country, cards, mix, trend, top>>

Footer ==
    /\ pc = "footer"
    /\ out' = Append(out, El("footer", "markdown"))
    /\ pc' = "done"
    /\ UNCHANGED <<prev, script, csv, cache, builds, renders, df, firstTable, selected_year,
                   selected_country, cards, mix, charts, trend, top>>

Next ==
    \/ NewRender
    \/ CallLoadData
    \/ ReadCsv
    \/ ParseYearStep
    \/ ParseNumericStep
    \/ DropColumnsStep
    \/ DropRowsStep
    \/ SelectorsCrash
    \/ Selectors
    \/ PointLookup
    \/ MapView
    \/ TrendView
    \/ LeaderView
    \/ ScatterView
    \/ ComparisonView
    \/ Footer

---------------------------------------------------------------------------
(* The CSV files the process is started on *)

Whole(x) == FloatCell(x * Scale)
Fraction(x) == FloatCell(x * Scale + 1)

FileCols == ExpectedCols \cup {"Country"}

MkRow(ent, code, year, sol, wnd, hyd, tot, cap) ==
    [c \in FileCols |->
        CASE c = "Entity" -> ent
          [] c = "Code" -> code
          [] c = "Year" -> year
          [] c = "Solar_GW" -> sol
          [] c = "Wind_GW" -> wnd
          [] c = "Hydro_GW" -> hyd
          [] c = "Total_GW" -> tot
          [] c = "Capacity_per_Capita_kW" -> cap
          [] c = "Population" -> Whole(10)
          [] c = "GDP_per_Capita" -> Whole(100)
          [] OTHER -> Str("dup")]

File(cs, rows) ==
    [exists |-> TRUE, cols |-> cs,
     rows |-> [i \in DOMAIN rows |-> [c \in cs |-> rows[i][c]]]]

AbsentFile == [exists |-> FALSE, cols |-> {}, rows |-> <<>>]

SeqsUpTo(S, n) == UNION {[1..m -> S] : m \in 0..n}

(* rows that differ in the cells load_data cleans and filters on *)
KeyRows ==
    {MkRow(e, Str("ISO"), y, Whole(1), Whole(1), Whole(1), Whole(3), Whole(1)) :
        e \in {NaN, Str("A"), Str("World")},
        y \in {NaN, Str("bad"), Whole(Year2023), Fraction(Year2010)}}
    \cup {MkRow(Str("A"), NaN, Whole(Year2023), Whole(1), Whole(1), Whole(1), Whole(3), Whole(1))}

InfRow == MkRow(Str("A"), Str("ISO"), Inf, Whole(1), Whole(1), Whole(1), Whole(3), Whole(1))

NegRow == MkRow(Str("A"), Str("ISO"), FloatCell(0 - 1), Whole(1), Whole(1), Whole(1), Whole(3), Whole(1))

KeyFiles == {File(FileCols, rs) : rs \in SeqsUpTo(KeyRows, MaxRows)}
               \cup {File(FileCols, <<InfRow>>), File(FileCols, <<NegRow>>)}

(* one row that differs in the values the metric cards and the mix read *)
Capacities == {NaN, Whole(0), Fraction(2)}

ValueRows ==
    {MkRow(Str("A"), Str("ISO"), Whole(Year2023), s, w, h, t, k) :
        s \in Capacities, w \in Capacities, h \in Capacities,
        t \in {NaN, Fraction(5)}, k \in {NaN, Whole(1)}}

ValueFiles == {File(FileCols, <<r>>) : r \in ValueRows}

(* a complete table read from files that lack one column, or carry no legacy column *)
BaseRows ==
    <<MkRow(Str("A"), Str("ISO"), Whole(Year2010), Whole(1), Whole(0), Whole(2), Whole(3), Whole(1)),
      MkRow(Str("A"), Str("ISO"), Whole(Year2023), Whole(2), Whole(1), Whole(2), Whole(5), Whole(2)),
      MkRow(Str("World"), Str("OWID"), Whole(Year2023), Whole(2), Whole(1), Whole(2), Whole(5), Whole(2))>>

ColumnFiles ==
    {File(FileCols \ {c}, BaseRows) : c \in FileCols}

(* a year of many countries: World, then LeaderRows countries in reverse
   alphabetical order, the first two and the last two with varying Total_GW *)
LeaderVals ==
    {[i \in 1..LeaderRows |->
         IF i = 1 THEN a ELSE IF i = 2 THEN b
         ELSE IF i = LeaderRows - 1 THEN c ELSE IF i = LeaderRows THEN d
         ELSE Whole(2)] :
        a \in {NaN, Whole(2), Whole(3)}, b \in {NaN, Whole(2), Whole(3)},
        c \in {Whole(1), Whole(2), Whole(3)}, d \in {Whole(1), Whole(2), Whole(3)}}

LeaderTable(v) ==
    <<MkRow(Str("World"), Str("OWID"), Whole(Year2023), Whole(1), Whole(1), Whole(1), Whole(9), Whole(1))>>
    \o [i \in 1..LeaderRows |->
            MkRow(Str(EntityOrder[LeaderRows + 1 - i]), Str("ISO"), Whole(Year2023),
                  Whole(1), Whole(1), Whole(1), v[i], Whole(1))]

LeaderFiles ==
    {File(FileCols, LeaderTable(v)) : v \in LeaderVals}
        \cup {AbsentFile, File(FileCols, <<>>)}

(* two years of many countries: World and LeaderRows countries in 2023 with
   varying Capacity_per_Capita_kW, then 2010 rows of World, of the first and
   of the last country *)
ComparisonVals ==
    {[i \in 1..LeaderRows |->
         IF i = 1 THEN a
         ELSE IF i = LeaderRows - 1 THEN c ELSE IF i = LeaderRows THEN d
         ELSE Whole(2)] :
        a \in {NaN, Whole(3)},
        c \in {Whole(1), Whole(2), Whole(3)}, d \in {Whole(1), Whole(2), Whole(3)}}

ComparisonTable(v, h) ==
    <<MkRow(Str("World"), Str("OWID"), Whole(Year2023), Whole(1), Whole(1), Whole(1), Whole(9), Whole(9))>>
    \o [i \in 1..LeaderRows |->
            MkRow(Str(EntityOrder[LeaderRows + 1 - i]), Str("ISO"), Whole(Year2023),
                  Whole(1), Whole(1), Whole(1), Whole(2), v[i])]
    \o <<MkRow(Str("World"), Str("OWID"), Whole(Year2010), Whole(1), Whole(1), Whole(1), Whole(9), Whole(9)),
          MkRow(Str(EntityOrder[LeaderRows]), Str("ISO"), Whole(Year2010),
                Whole(1), Whole(1), Whole(1), Whole(2), h),
          MkRow(Str(EntityOrder[1]), Str("ISO"), Whole(Year2010),
                Whole(1), Whole(1), Whole(1), Whole(2), Whole(1))>>

ComparisonFiles ==
    {File(FileCols, ComparisonTable(v, h)) : v \in ComparisonVals, h \in {NaN, Whole(1)}}
        \cup {AbsentFile, File(FileCols, <<>>)}

Files == {AbsentFile} \cup KeyFiles \cup ValueFiles \cup ColumnFiles

Init == Start(Files)

Spec == Init /\ [][Next]_vars

InitLeader == Start(LeaderFiles)

SpecLeader == InitLeader /\ [][Next]_vars

InitComparison == Start(ComparisonFiles)

SpecComparison == InitComparison /\ [][Next]_vars

---------------------------------------------------------------------------
(* Properties of load_data *)

Present(r, cs) == \A c \in cs : ~IsNa(r[c])

InBody == pc \in {"read_csv", "parse_year", "parse_numeric", "drop_columns", "dropna"}
AfterLoad == pc \in {"selectors", "lookup", "map", "trend", "leader", "scatter",
                     "comparison", "footer", "done", "crashed"}

(* C1: when load_data returns a table, the table returned (and cached) is the
   table it held before the row drop without the rows missing Entity, Code or
   Year: every returned row has all three, every row missing one is gone and
   every other row is kept, in order. *)
C1_ReturnedRowsHaveKeys ==
    [][(pc = "dropna" /\ pc' = "selectors") =>
          /\ \A i \in Indices(df') : Present(df'.rows[i], KeyCols)
          /\ df'.rows = SelectSeq(df.rows, LAMBDA r : Present(r, {"Entity"})
                                                     /\ Present(r, {"Code"})
                                                     /\ Present(r, {"Year"}))
          /\ \A i \in Indices(df) :
                ~Present(df.rows[i], KeyCols) => df.rows[i] \notin Range(df'.rows)
          /\ cache'.table = df']_vars

C1_Witness ==
    /\ cache.full
    /\ Len(cache.table.rows) = 1
    /\ Len(csv.rows) = 2
    /\ \E i \in DOMAIN csv.rows : IsNa(csv.rows[i]["Code"])

(* C2: on an absent file or a file without a Year column the render emits
   load_data's error and nothing else, and stops inside load_data: it never
   reaches the selectors, a view or the footer. *)
C2_FatalHalts ==
    (~csv.exists \/ "Year" \notin csv.cols) =>
        /\ pc \in {"idle", "load", "read_csv", "parse_year", "stopped"}
        /\ pc = "stopped" <=> out = <<El("load", "error")>>
        /\ pc # "stopped" => out = <<>>
        /\ cards = <<>> /\ mix = {} /\ charts = NoCharts /\ trend = {} /\ top = <<>>
        /\ ~cache.full

C2_Witness ==
    /\ csv.exists
    /\ "Year" \notin csv.cols
    /\ pc = "stopped"
    /\ renders = MaxRenders

(* C3 as stated: after the Year parsing step every row is still there, an
   unparseable or empty Year cell has become the integer 0 and a parseable
   cell holds its numeric value unchanged. *)
C3_KeepsNumericValue ==
    pc = "parse_numeric" =>
        /\ Len(df.rows) = Len(csv.rows)
        /\ \A i \in Indices(df) :
              LET raw == csv.rows[i]["Year"]
                  y   == df.rows[i]["Year"]
              IN  /\ raw.k \in {"nan", "str"} => y = IntCell(0)
                  /\ raw.k = "float" => (y.k = "int" /\ y.n * Scale = raw.n)

(* C3, amended: after the Year parsing step every row is still there, an
   unparseable or empty Year cell has become the integer 0 and a parseable
   (finite) cell has become the integer part of its value, the fraction cut
   off toward zero, so that a whole number is unchanged. *)
C3_YearParsed ==
    pc = "parse_numeric" =>
        /\ Len(df.rows) = Len(csv.rows)
        /\ \A i \in Indices(df) :
              LET raw == csv.rows[i]["Year"]
                  y   == df.rows[i]["Year"]
              IN  /\ raw.k \in {"nan", "str"} => y = IntCell(0)
                  /\ raw.k = "float" =>
                        /\ y.k = "int"
                        /\ raw.n >= 0 => (y.n * Scale <= raw.n /\ raw.n < (y.n + 1) * Scale)
                        /\ raw.n < 0 => (y.n * Scale >= raw.n /\ raw.n > (y.n - 1) * Scale)

C3_Witness ==
    /\ pc = "parse_numeric"
    /\ Len(df.rows) = 2
    /\ csv.rows[1]["Year"] = Str("bad")
    /\ csv.rows[2]["Year"] = Fraction(Year2010)
    /\ df.rows[1]["Year"] = IntCell(0)
    /\ df.rows[2]["Year"] = IntCell(Year2010)

(* C4: a row whose Year cell is non-numeric or empty is not in the table
   load_data returns: the table has at most as many rows as the file has rows
   with a numeric Year. *)
C4_BadYearRowsRemoved ==
    cache.full =>
        Len(cache.table.rows) <=
            Cardinality({i \in DOMAIN csv.rows : csv.rows[i]["Year"].k = "float"})

(* C5: with the key columns there and one of the optional numeric columns
   absent, the render neither stops nor crashes, and a finished render has
   emitted the footer. *)
C5_MissingColumnDegrades ==
    (csv.exists /\ KeyCols \subseteq csv.cols /\ ~(NumericCols \subseteq csv.cols)) =>
        /\ pc \notin {"crashed", "stopped"}
        /\ \A i \in DOMAIN out : out[i].kind # "exception"

(* C6: the body of load_data completes at most once per process, in the first
   render; every render that got a table holds the table the first render
   observed, which is the cached one, and no later render runs the body once
   the table is cached. *)
C6_BuiltOnce ==
    /\ builds <= 1
    /\ cache.full <=> builds = 1
    /\ firstTable.set => (firstTable.at = 1 /\ cache.full /\ cache.table = firstTable.table)
    /\ AfterLoad => (builds = 1 /\ firstTable.set /\ df = firstTable.table)
    /\ (InBody /\ renders > 1) => ~cache.full

C6_Witness ==
    /\ renders = MaxRenders
    /\ pc = "done"
    /\ builds = 1
    /\ Len(df.rows) = 2

---------------------------------------------------------------------------
(* Properties of the point lookup, the metric cards and the energy mix *)

(* the running render has passed the point lookup *)
LookedUp ==
    \/ pc \in {"map", "trend", "leader", "scatter", "comparison", "footer", "done"}
    \/ pc = "crashed" /\ out[Len(out)].view # "selectors"

Matched == filtered_country_data(df, selected_year, selected_country)
MatchedRow == df.rows[Min(Matched)]

Emitted(v, k) == \E i \in DOMAIN out : out[i] = El(v, k)
EmittedView(v) == \E i \in DOMAIN out : out[i].view = v

(* C7: when no row matches the selection, the point lookup emits its "no
   data" message, no metric cards and no energy-mix element, and the render
   goes on without a crash to the footer. *)
C7_NoMatchMessage ==
    (LookedUp /\ Matched = {}) =>
        /\ Emitted("lookup", "info")
        /\ cards = <<>>
        /\ ~EmittedView("metrics")
        /\ ~EmittedView("mix")
        /\ pc # "crashed"
        /\ pc = "done" => Emitted("footer", "markdown")

ValueOrZero(r, col) ==
    IF col \in DOMAIN r /\ ~IsNa(r[col]) THEN r[col] ELSE FloatCell(0)

(* C8: for the matched row each of the five metric cards shows the row's
   value when it is present and 0 when the column is absent or the cell is
   missing. *)
C8_CardsZeroForMissing ==
    (LookedUp /\ Matched # {}) =>
        /\ Emitted("metrics", "cards")
        /\ cards = [j \in DOMAIN MetricCols |-> ValueOrZero(MatchedRow, MetricCols[j])]

ZeroOrMissing(r, col) == ValueOrZero(r, col).n = 0

(* C9: for a matched row the energy-mix view shows the message and no chart
   exactly when Solar_GW, Wind_GW and Hydro_GW are all zero or missing;
   otherwise it draws the chart, every slice a present value of the row and
   every positive value of the row a slice. *)
C9_MixMessageIffAllZero ==
    (LookedUp /\ Matched # {}) =>
        LET allZero == \A j \in DOMAIN MixCols : ZeroOrMissing(MatchedRow, MixCols[j])
        IN  /\ allZero <=> (Emitted("mix", "info") /\ ~Emitted("mix", "chart"))
            /\ ~allZero <=> (Emitted("mix", "chart") /\ ~Emitted("mix", "info"))
            /\ \A sl \in mix : sl.Capacity_GW = ValueOrZero(MatchedRow, sl.Source)
            /\ ~allZero =>
                  \A j \in DOMAIN MixCols :
                      Positive(ValueOrZero(MatchedRow, MixCols[j])) =>
                          [Source |-> MixCols[j],
                           Capacity_GW |-> MatchedRow[MixCols[j]]] \in mix

---------------------------------------------------------------------------
(* Properties of the leaderboard *)

LeaderDone == pc \in {"scatter", "comparison", "footer", "done"}

Smaller(a, b) == IF a <= b THEN a ELSE b

(* the eligible rows: selected year, not World, Total_GW present *)
Eligible ==
    {i \in Indices(df) : /\ df.rows[i]["Year"].n = selected_year
                         /\ df.rows[i]["Entity"].s # "World"
                         /\ df.rows[i]["Total_GW"].k = "float"}

(* the rows of the selected year the leaderboard selected *)
SelectedRows ==
    IF script = "checkpoint" THEN charts["leader"]
    ELSE {i \in Indices(df) : /\ df.rows[i]["Year"].n = selected_year
                              /\ df.rows[i]["Entity"].s \in Range(top)}

TopOfRows(sel, n) ==
    /\ sel \subseteq Eligible
    /\ Cardinality(sel) = Smaller(n, Cardinality(Eligible))
    /\ \A u \in Eligible \ sel : \A w \in sel :
          /\ df.rows[u]["Total_GW"].n <= df.rows[w]["Total_GW"].n
          /\ df.rows[u]["Total_GW"].n = df.rows[w]["Total_GW"].n => w < u

(* C10 as stated: the leaderboard selects exactly min(10, n) of the n eligible
   rows, no unselected eligible row has a larger Total_GW than a selected one,
   and among equal values at the cut-off the earlier rows are selected. *)
C10_TopTenOfEligible == LeaderDone => TopOfRows(SelectedRows, TopTen)

(* the entities app.py ranks: those other than World with a row of the
   selected year, each by the sum of its present Total_GW values *)
RankedEntities ==
    {df.rows[i]["Entity"].s : i \in {j \in Indices(df) :
        df.rows[j]["Year"].n = selected_year /\ df.rows[j]["Entity"].s # "World"}}

RECURSIVE PresentTotal(_)
PresentTotal(S) ==
    IF S = {} THEN 0
    ELSE LET i == CHOOSE j \in S : TRUE
         IN  (IF df.rows[i]["Total_GW"].k = "float" THEN df.rows[i]["Total_GW"].n ELSE 0)
             + PresentTotal(S \ {i})

EntityTotal(e) ==
    PresentTotal({i \in Indices(df) : df.rows[i]["Year"].n = selected_year
                                      /\ df.rows[i]["Entity"].s = e})

(* C10, amended: the checkpoint copy's leaderboard selects exactly min(10, n)
   of the n eligible rows, none of the others larger than a selected one and
   the earlier rows first among equal values; app.py's view selects min(5, m)
   of the m entities other than World that have a row of the selected year,
   ranked by the sum of their Total_GW with a missing value counted as 0, none
   of the others larger than a selected one and the alphabetically earlier
   entity first among equal sums. *)
C10_LeaderSelection ==
    LeaderDone =>
        IF script = "checkpoint"
        THEN TopOfRows(charts["leader"], TopTen)
        ELSE /\ Range(top) \subseteq RankedEntities
             /\ Len(top) = Smaller(TopFive, Cardinality(RankedEntities))
             /\ Cardinality(Range(top)) = Len(top)
             /\ \A u \in RankedEntities \ Range(top) : \A w \in Range(top) :
                   /\ EntityTotal(u) <= EntityTotal(w)
                   /\ EntityTotal(u) = EntityTotal(w) => Rank(w) < Rank(u)

C10_Witness ==
    /\ script = "checkpoint"
    /\ LeaderDone
    /\ Cardinality(Eligible) > TopTen
    /\ Cardinality(charts["leader"]) = TopTen
    /\ \E u \in Eligible \ charts["leader"] : \E w \in charts["leader"] :
          df.rows[u]["Total_GW"] = df.rows[w]["Total_GW"]

---------------------------------------------------------------------------
(* Properties of the historical comparison *)

(* the running render has passed the comparison view *)
ComparisonDone == pc \in {"footer", "done"}

(* the rows of year y other than World with a present Capacity_per_Capita_kW *)
PerCapitaRows(y) ==
    {i \in Indices(df) : /\ df.rows[i]["Year"].n = y
                         /\ df.rows[i]["Entity"].s # "World"
                         /\ df.rows[i]["Capacity_per_Capita_kW"].k = "float"}

(* C11: when the table has no row of 2010 other than World with a present
   Capacity_per_Capita_kW, the comparison view shows an informational message
   and draws no chart, whatever the 2023 rows and the selection are. *)
C11_No2010Message ==
    (ComparisonDone /\ PerCapitaRows(Year2010) = {}) =>
        /\ Emitted("comparison", "info")
        /\ ~Emitted("comparison", "chart")
        /\ charts["comparison"] = {}

(* the entities of a set of rows *)
EntitiesOf(S) == {df.rows[i]["Entity"].s : i \in S}

(* the largest Capacity_per_Capita_kW of entity e in year y *)
BestPerCapita(e, y) ==
    Max({df.rows[i]["Capacity_per_Capita_kW"].n :
            i \in {j \in PerCapitaRows(y) : df.rows[j]["Entity"].s = e}})

(* the rows of 2010 and 2023 with a present Capacity_per_Capita_kW whose
   Entity is in E *)
RowsOfEntities(E) ==
    {i \in Indices(df) : /\ df.rows[i]["Year"].n \in {Year2010, Year2023}
                         /\ df.rows[i]["Capacity_per_Capita_kW"].k = "float"
                         /\ df.rows[i]["Entity"].s \in E}

(* C12: whatever the selection, the rows the comparison chart draws are the
   rows of 2010 and 2023 with a present Capacity_per_Capita_kW whose Entity is
   one of the at most ten entities other than World with the largest 2023
   Capacity_per_Capita_kW; and the comparison rows of a render are those of
   the render before it, whose selection may differ. *)
C12_ComparisonRows ==
    /\ (ComparisonDone /\ Emitted("comparison", "chart")) =>
          LET drawn == charts["comparison"]
              E     == EntitiesOf(drawn)
              P     == PerCapitaRows(Year2023)
          IN  /\ drawn = RowsOfEntities(E)
              /\ E \subseteq EntitiesOf(P)
              /\ Cardinality(E) <= TopTen
              /\ Cardinality(drawn \cap P) >= Smaller(TopTen, Cardinality(P))
              /\ \A u \in EntitiesOf(P) \ E : \A w \in E :
                    BestPerCapita(u, Year2023) <= BestPerCapita(w, Year2023)
    /\ (ComparisonDone /\ prev.set) => charts["comparison"] = prev.comparison

C12_Witness ==
    /\ ComparisonDone
    /\ Emitted("comparison", "chart")
    /\ prev.set
    /\ selected_year = Year2010
    /\ selected_country # DefaultCountry(df)
    /\ Cardinality(PerCapitaRows(Year2023)) > TopTen
    /\ \E i \in charts["comparison"] : df.rows[i]["Year"].n = Year2010
    /\ \E i \in PerCapitaRows(Year2010) : i \notin charts["comparison"]

---------------------------------------------------------------------------
(* Properties of the views as a whole *)

ViewOrder == <<"lookup", "map", "trend", "leader", "scatter", "comparison", "footer", "done">>

Position(v) == CHOOSE k \in DOMAIN ViewOrder : ViewOrder[k] = v

(* the running render has passed view v without a crash *)
Passed(v) == pc \in Range(ViewOrder) /\ Position(v) < Position(pc)

(* the data view v handed to its chart *)
ViewData(v) == IF v = "trend" THEN trend ELSE charts[v]

(* C13: when the filter of the map, the global trend, the leaderboard or the
   scatter yields no row, the view emits an informational message and no
   chart, raises nothing, and the render goes on to the footer. *)
C13_EmptyViewMessage ==
    \A v \in {"map", "trend", "leader", "scatter"} :
        (Passed(v) /\ ViewData(v) = {}) =>
            /\ Emitted(v, "info")
            /\ ~Emitted(v, "chart")
            /\ ~Emitted(v, "exception")
            /\ pc = "done" => Emitted("footer", "markdown")

(* the running render has read both selectors *)
SelectorsDone ==
    \/ pc \in Range(ViewOrder)
    \/ pc = "crashed" /\ out[Len(out)].view # "selectors"

(* C14: at every render, the first with its defaults included, selected_year
   lies between the smallest and the largest Year of the table and
   selected_country is an Entity of the table. *)
C14_SelectionInData ==
    SelectorsDone =>
        /\ Min(Years(df)) <= selected_year
        /\ selected_year <= Max(Years(df))
        /\ selected_country \in Countries(df)

(* some row of year y other than World has a present value in column col *)
HasValue(y, col) ==
    \E i \in Indices(df) : /\ df.rows[i]["Year"].n = y
                            /\ df.rows[i]["Entity"].s # "World"
                            /\ ~IsNa(df.rows[i][col])

(* entity e has a present Total_GW in the selected year *)
HasTotal(e) ==
    \E i \in Indices(df) : /\ df.rows[i]["Year"].n = selected_year
                            /\ df.rows[i]["Entity"].s = e
                            /\ ~IsNa(df.rows[i]["Total_GW"])

(* C15: outside the metric cards a missing value is left out and never counted
   or drawn as 0: every point of the global trend has a present value behind
   it, every ranked entity has a present Total_GW in the selected year, and
   every row of the map and of the scatter has its values present. *)
C15_MissingNeverZero ==
    /\ Passed("trend") =>
          \A p \in trend : HasValue(p.Year, p.Source)
    /\ Passed("leader") =>
          \A k \in DOMAIN top : HasTotal(top[k])
    /\ Passed("map") =>
          \A i \in charts["map"] : ~IsNa(df.rows[i]["Total_GW"])
    /\ Passed("scatter") =>
          \A i \in charts["scatter"] : \A c \in ScatterCols : ~IsNa(df.rows[i][c])

(* C16: once load_data has returned, no step of a render changes the loaded
   table: each step of the render leaves df as it was, and no step of any
   render changes the cached table. *)
C16_TableUnchanged ==
    [][/\ (AfterLoad /\ pc' # "load") => df' = df
       /\ cache.full => cache' = cache]_vars

C16_Witness ==
    /\ script = "app"
    /\ renders = MaxRenders
    /\ pc = "scatter"
    /\ top # <<>>
    /\ \E i \in Indices(df) : /\ df.rows[i]["Entity"].s \in Range(top)
                              /\ IsNa(df.rows[i]["Total_GW"])
    /\ df = firstTable.table

---------------------------------------------------------------------------
(* The two copies of the script side by side: the page copy s renders for
   table t and selection (y, c), view by view *)

LookupEls(s, t, y, c) ==
    LET f == filtered_country_data(t, y, c)
    IN  IF f = {} THEN Placeholder(s, "lookup")
        ELSE IF MixDrawn(s, t.rows[Min(f)])
             THEN <<El("metrics", "cards"), El("mix", "chart")>>
             ELSE <<El("metrics", "cards"), El("mix", "info")>>

MapEls(s, t, y) ==
    IF "Total_GW" \notin t.cols THEN <<El("map", "exception")>>
    ELSE ChartOrPlaceholder(s, "map", map_data(t, y))

TrendEls(s, t) ==
    IF ~(Range(MixCols) \subseteq t.cols) THEN <<El("trend", "exception")>>
    ELSE ChartOrPlaceholder(s, "trend", global_trend_data(t))

LeaderEls(s, t, y) ==
    IF "Total_GW" \notin t.cols THEN <<El("leader", "exception")>>
    ELSE ChartOrPlaceholder(s, "leader", LeaderRowsOf(s, t, y))

ScatterEls(s, t, y) ==
    IF ~(ScatterCols \subseteq t.cols) THEN <<El("scatter", "exception")>>
    ELSE ChartOrPlaceholder(s, "scatter", scatter_data(t, y))

ComparisonEls(s, t) ==
    IF "Capacity_per_Capita_kW" \notin t.cols THEN <<El("comparison", "exception")>>
    ELSE ChartOrPlaceholder(s, "comparison", ComparisonRows(t))

(* the run ends at the first exception *)
UntilException(p) ==
    LET stops == {k \in DOMAIN p : p[k].kind = "exception"}
    IN  IF stops = {} THEN p ELSE SubSeq(p, 1, Min(stops))

Page(s, t, y, c) ==
    UntilException(LookupEls(s, t, y, c) \o MapEls(s, t, y) \o TrendEls(s, t)
                   \o LeaderEls(s, t, y) \o ScatterEls(s, t, y)
                   \o ComparisonEls(s, t) \o <<El("footer", "markdown")>>)

(* the slices of the energy-mix chart of copy s, none when it shows the message *)
MixOf(s, t, y, c) ==
    LET f == filtered_country_data(t, y, c)
    IN  IF f # {} /\ MixDrawn(s, t.rows[Min(f)]) THEN MixSlices(s, t.rows[Min(f)]) ELSE {}

(* the rows of the leaderboard chart of copy s *)
LeaderOf(s, t, y) == IF "Total_GW" \in t.cols THEN LeaderRowsOf(s, t, y) ELSE {}

(* what the running render has emitted after load_data *)
ViewsOf(p) ==
    LET IsView(e) == e.view # "load"
    IN  SelectSeq(p, IsView)

RenderOver == SelectorsDone /\ pc \in {"done", "crashed"}

(* C17 as stated: for every loaded table and selection the two copies render
   the same sequence of views with the same outcomes, and the same rows and
   values behind each chart. *)
C17_SamePage ==
    RenderOver =>
        /\ Page("app", df, selected_year, selected_country)
              = Page("checkpoint", df, selected_year, selected_country)
        /\ MixOf("app", df, selected_year, selected_country)
              = MixOf("checkpoint", df, selected_year, selected_country)
        /\ LeaderOf("app", df, selected_year) = LeaderOf("checkpoint", df, selected_year)

(* a page without its messages, its energy mix and its leaderboard *)
Core(p) ==
    LET Kept(e) == e.kind # "info" /\ e.view \notin {"mix", "leader"}
    IN  SelectSeq(p, Kept)

(* C17, amended: the finished render shows the page of its copy; the two
   copies agree on the metric cards, on whether the map, the trend, the scatter
   and the comparison draw a chart, on the data of those charts, on the view
   that crashes and on the footer; the only message the checkpoint ever shows
   is that of the energy mix. *)
C17_SameCore ==
    RenderOver =>
        /\ ViewsOf(out) = Page(script, df, selected_year, selected_country)
        /\ Core(Page("app", df, selected_year, selected_country))
              = Core(Page("checkpoint", df, selected_year, selected_country))
        /\ \A k \in DOMAIN out :
              (script = "checkpoint" /\ out[k].kind = "info") => out[k].view = "mix"
        /\ Emitted("metrics", "cards") =>
              cards = [j \in DOMAIN MetricCols |-> Get(MatchedRow, MetricCols[j])]
        /\ Emitted("map", "chart") => charts["map"] = map_data(df, selected_year)
        /\ Emitted("trend", "chart") => trend = global_trend_data(df)
        /\ Emitted("scatter", "chart") => charts["scatter"] = scatter_data(df, selected_year)
        /\ Emitted("comparison", "chart") => charts["comparison"] = comparison_data(df)

C17_Witness ==
    /\ script = "checkpoint"
    /\ pc = "done"
    /\ Emitted("map", "chart")
    /\ Emitted("mix", "info")
    /\ ~Emitted("comparison", "chart")
    /\ Page("app", df, selected_year, selected_country) # ViewsOf(out)

=============================================================================
